---- MODULE Spec2Model ----
(***************************************************************************)
(* Idle and timer reconciliation of the employee time tracker.             *)
(*                                                                         *)
(* Host side: IdleManager of electron/main.js (persisted heartbeat record, *)
(* 1 Hz heartbeat, power events, reconcileTimestamps, forcedWrite).        *)
(* UI side: the idle accumulator of src/hooks/useTimer.ts.                 *)
(*                                                                         *)
(* Times are milliseconds, as in the code.  JavaScript null is modelled as *)
(* 0 for numbers and ids (the code tests them with !x, which treats 0 and  *)
(* null alike) and as "none" for lastEventSource.                          *)
(***************************************************************************)
EXTENDS Integers, Sequences, FiniteSets, TLC

\* ------------------------------------------------------------------------
\* Program constants
\* ------------------------------------------------------------------------
IDLE_GAP_MS == 60000
TAMPER_MS == 30000
HEARTBEAT_MS == 1000
IDLE_THRESHOLD == 60
SUPPRESS_MS == 2000
\* 48 * 3600
MAX_IDLE_SECONDS == 172800

\* ------------------------------------------------------------------------
\* Bounds of the model
\* ------------------------------------------------------------------------
Epoch == 100000
MaxTime == 125000
MaxEvents == 2
MaxLogId == 2
MaxTimers == 1
MaxRestarts == 1
MaxSamples == 7
MaxIdle == 100
MaxGaps == 2
MaxReloads == 1
MaxReqs == 2
MaxRows == 2
MaxBackendTicks == 2

NULL == 0
Unlocked == [at |-> 0, held |-> FALSE]

LogIds == 1..MaxLogId
TaskIds == {7}
InstanceIds == {1}
IdleStartSources == {"lock", "suspend"}
IdleEndSources == {"unlock", "resume"}
\* elapsed time between two steps while no heartbeat timer forces a tick
Steps == {30000, IDLE_GAP_MS + 1}
\* wall clock adjustments (user or NTP sets the clock)
Adjusts == {-(TAMPER_MS + 1), TAMPER_MS}
\* process.uptime()*1000 when app.whenReady() runs IdleManager.initialize
StartUptimes == {HEARTBEAT_MS}

Abs(x) == IF x < 0 THEN -x ELSE x
\* mutant of FloorSeconds: rounds up
CeilSeconds(ms) == (ms + 999) \div 1000
\* Math.floor(x / 1000)
FloorSeconds(ms) == ms \div 1000

VARIABLES
    store,              \* the persisted record (electron-store 'idle-tracker')
    heartbeatInterval,  \* this.heartbeatInterval is non-null
    hbTimers,           \* number of live setInterval heartbeat timers
    tickDue,            \* a heartbeat timer callback is due and not yet run
    now,                \* Date.now()
    uptime,             \* process.uptime() * 1000
    skew,               \* sum of the wall clock adjustments made so far
    alive,              \* the host process is running
    frozen,             \* the system is suspended
    lock,               \* the latest lock-screen event: its uptime, and whether still locked
    windowOk,           \* this.mainWindow exists and is not destroyed
    processStartTime,   \* this.processStartTime
    restarts,           \* number of process starts after the first
    emitted,            \* number of idle events built by reconcileTimestamps
    sent,               \* number of idle events sent to the renderer
    last                \* what the most recent handler was and, for reconcile, what it did

hostVars == <<store, heartbeatInterval, hbTimers, tickDue, now, uptime, skew,
              alive, frozen, lock, windowOk, processStartTime, restarts,
              emitted, sent, last>>

VARIABLES
    uiLogId,            \* currentLogId / currentLogIdRef of useTimer (0: null)
    accumulatedIdle,    \* accumulatedIdleRef.current
    lastSystemIdle,     \* lastSystemIdleRef.current
    ignoreNextSoftIdleReset, \* ignoreNextSoftIdleResetRef.current
    idleSeconds,        \* the idleSeconds state: shown, and submitted at stop
    suppressTimers,     \* ms left on each pending setTimeout(..., 2000)
    storage,            \* localStorage ett_idle_<logId>, -1 when absent
    fed,                \* the soft-idle samples processed so far, in order
    osIdle,             \* powerMonitor.getSystemIdleTime() now, in seconds
    inbox,              \* 'timer:idle-event' messages on their way to the UI
    gap                 \* the idle gap that ended last, and the total before it

uiVars == <<uiLogId, accumulatedIdle, lastSystemIdle, ignoreNextSoftIdleReset,
            idleSeconds, suppressTimers, storage, fed, osIdle, inbox, gap>>

VARIABLES
    fw,                 \* the forcedWrite in progress, and what the last one
                        \* replaced, wrote and left for the next start
    torn                \* the store file holds no complete JSON document

fwVars == <<fw, torn>>

VARIABLES
    beLogs,             \* rows of the backend's time_logs table, by id
    beReqs,             \* start requests that passed the checks, not yet inserted
    beNow,              \* NOW() of the database, ms
    beTicks             \* how often backend time has advanced

beVars == <<beLogs, beReqs, beNow, beTicks>>

VARIABLES
    idleCheckInterval,  \* the 1 Hz idle check of main.js is running
    uncaught,           \* an error left a host callback uncaught
    refreshed,          \* history: the clocks of the latest reconcile that
                        \* found no gap, live until the heartbeat is rewritten
    starting,           \* the store.set calls a startTracking call in
                        \* progress has still to make
    seenIdle            \* history: the current session has processed a
                        \* sample of at least 60 s

mainVars == <<idleCheckInterval, uncaught, refreshed, starting, seenIdle>>

vars == <<hostVars, uiVars, fwVars, beVars, mainVars>>

\* what a step of one part leaves alone
nonHostVars == <<uiVars, fwVars, beVars, mainVars>>
sideVars == <<fwVars, beVars, uncaught, refreshed, starting, seenIdle>>
nonWriteVars == <<uiVars, beVars, mainVars>>
nonBackendVars == <<hostVars, uiVars, fwVars, mainVars>>

\* ------------------------------------------------------------------------
\* The persisted record
\* ------------------------------------------------------------------------
StoreDefaults ==
    [instanceId |-> NULL, lastActiveAt |-> NULL, lastActiveAtMonotonic |-> NULL,
     timerRunning |-> FALSE, currentLogId |-> NULL, taskId |-> NULL,
     lastEventSource |-> "none", processStartTime |-> NULL]

\* { ...currentData, ...updates }
Merge(rec, updates) ==
    [k \in DOMAIN rec |-> IF k \in DOMAIN updates THEN updates[k] ELSE rec[k]]

\* mutant of InitializeInstanceId: a new id at every process start
InitializeInstanceIdAlways(rec, fresh) == [rec EXCEPT !.instanceId = fresh]

\* initializeInstanceId: generate an id when the store holds none
InitializeInstanceId(rec, fresh) ==
    IF rec.instanceId = NULL THEN [rec EXCEPT !.instanceId = fresh] ELSE rec

\* mutant of UpdateHeartbeat: the monotonic field is derived from the wall clock
UpdateHeartbeatFromWallClock(rec, t, mono) ==
    [rec EXCEPT !.lastActiveAt = t, !.lastActiveAtMonotonic = t - Epoch]

\* updateHeartbeat: two ordinary store.set calls
UpdateHeartbeat(rec, t, mono) ==
    [rec EXCEPT !.lastActiveAt = t, !.lastActiveAtMonotonic = mono]

\* forcedWrite: a failed fs.writeFileSync is caught and the keys are not set
ForcedWrite(rec, updates, ok) ==
    IF ok THEN Merge(rec, updates) ELSE rec

NoWrite == [pc |-> "none", caller |-> "none", old |-> StoreDefaults,
            new |-> StoreDefaults, diedAt |-> "none", boot |-> "none",
            read |-> StoreDefaults]

ReqIds == 1..MaxReqs
NoReq == [user |-> NULL, instance |-> NULL, pc |-> "none"]

\* no startTracking call is in progress
NotStarting == [active |-> FALSE, sets |-> <<>>]

NoGap == [n |-> 0, base |-> 0, hard |-> 0, open |-> FALSE]

NoEvent ==
    [idleSeconds |-> 0, source |-> "none", startedAt |-> 0, endedAt |-> 0,
     logId |-> NULL, gapDetected |-> FALSE, clockTampering |-> FALSE]

\* `last` after a handler other than reconcileTimestamps
NoCall == [op |-> "other", pre |-> StoreDefaults, ret |-> NoEvent, built |-> 0,
           sentNow |-> 0]
Ran(name) == IF name = "start" THEN [NoCall EXCEPT !.op = "start"] ELSE NoCall
ReconcileOps == {"unlock", "resume", "reconcile", "initialize"}


\* ------------------------------------------------------------------------
\* reconcileTimestamps, as pure functions of the record and the two clocks
\* ------------------------------------------------------------------------
SystemGap(rec, t) == t - rec.lastActiveAt
MonotonicGap(rec, mono) == mono - rec.lastActiveAtMonotonic
GapDifference(rec, t, mono) == Abs(SystemGap(rec, t) - MonotonicGap(rec, mono))

\* mutant of ReconcileSkips: the timerRunning test is missing
ReconcileSkipsTimestampsOnly(rec) ==
    \/ rec.lastActiveAt = NULL
    \/ rec.lastActiveAtMonotonic = NULL

\* the two early returns: no running timer, or a missing timestamp
ReconcileSkips(rec) ==
    \/ ~rec.timerRunning
    \/ rec.lastActiveAt = NULL
    \/ rec.lastActiveAtMonotonic = NULL

\* mutant of ClockTampering: flags a difference of exactly 30000 ms
ClockTamperingAtThreshold(rec, t, mono) == GapDifference(rec, t, mono) >= TAMPER_MS
\* gapDifference > 30000
ClockTampering(rec, t, mono) == GapDifference(rec, t, mono) > TAMPER_MS

\* mutant of IdleDetected: a gap of exactly 60000 ms counts as idle
IdleDetectedAtThreshold(rec, mono) ==
    /\ ~ReconcileSkips(rec)
    /\ MonotonicGap(rec, mono) >= IDLE_GAP_MS

\* mutant of IdleDetected: the size of the gap is tested, whatever its sign
IdleDetectedEitherWay(rec, mono) ==
    /\ ~ReconcileSkips(rec)
    /\ Abs(MonotonicGap(rec, mono)) > IDLE_GAP_MS

\* trustedGap > 60000
IdleDetected(rec, mono) ==
    /\ ~ReconcileSkips(rec)
    /\ MonotonicGap(rec, mono) > IDLE_GAP_MS

IdleEventOf(rec, t, mono) ==
    [idleSeconds |-> FloorSeconds(MonotonicGap(rec, mono)),
     source |-> IF rec.lastEventSource = "none" THEN "unknown"
                ELSE rec.lastEventSource,
     startedAt |-> rec.lastActiveAt,
     endedAt |-> t,
     logId |-> rec.currentLogId,
     gapDetected |-> TRUE,
     clockTampering |-> ClockTampering(rec, t, mono)]

\* stopTracking: the record after its forced write
StopTrackingStore(rec, ok) ==
    ForcedWrite(rec,
                [timerRunning |-> FALSE, currentLogId |-> NULL, taskId |-> NULL,
                 lastEventSource |-> "timer-stopped"],
                ok)

\* mutant of ReconcileStore: a call that finds no gap leaves the heartbeat as
\* it was
ReconcileStoreWithoutRefresh(rec, t, mono, ok) ==
    IF ReconcileSkips(rec) THEN rec
    ELSE IF IdleDetected(rec, mono) THEN StopTrackingStore(rec, ok)
    ELSE rec

\* the record when reconcileTimestamps returns
ReconcileStore(rec, t, mono, ok) ==
    IF ReconcileSkips(rec) THEN rec
    ELSE IF IdleDetected(rec, mono) THEN StopTrackingStore(rec, ok)
    ELSE UpdateHeartbeat(rec, t, mono)

\* what reconcileTimestamps returns (NoEvent stands for null)
ReconcileResult(rec, t, mono) ==
    IF IdleDetected(rec, mono) THEN IdleEventOf(rec, t, mono) ELSE NoEvent

\* mutant of SendIdleEventToRenderer: the window is not tested
SendIdleEventToAnyWindow(n, win) == n + 1

\* sendIdleEventToRenderer: sent only when the window exists
SendIdleEventToRenderer(n, win) ==
    IF win THEN n + 1 ELSE n

\* what the call leaves in `last`: the record it read, what it returned, and
\* how many events it built and sent
ReconcileCall(name, rec, t, mono, win) ==
    [op |-> name,
     pre |-> rec,
     ret |-> ReconcileResult(rec, t, mono),
     built |-> IF IdleDetected(rec, mono) THEN 1 ELSE 0,
     sentNow |-> IF IdleDetected(rec, mono)
                 THEN SendIdleEventToRenderer(0, win) ELSE 0]

\* clearInterval(this.heartbeatInterval) inside stopTracking
TimersAfterStop == IF heartbeatInterval THEN hbTimers - 1 ELSE hbTimers

\* reconcileTimestamps run on record rec at clocks (t, mono); write succeeds iff ok
ReconcileTimestamps(name, rec, t, mono, win, ok) ==
    /\ IdleDetected(rec, mono) => emitted < MaxEvents
    /\ store' = ReconcileStore(rec, t, mono, ok)
    /\ last' = ReconcileCall(name, rec, t, mono, win)
    /\ IF IdleDetected(rec, mono)
       THEN /\ emitted' = emitted + 1
            /\ sent' = SendIdleEventToRenderer(sent, win)
            /\ heartbeatInterval' = FALSE
            /\ hbTimers' = TimersAfterStop
            /\ tickDue' = (tickDue /\ TimersAfterStop > 0)
       ELSE UNCHANGED <<emitted, sent, heartbeatInterval, hbTimers, tickDue>>

\* ------------------------------------------------------------------------
\* Initial state: first start on a fresh install, after the constructor and
\* initialize() (whose reconcile finds no running timer)
\* ------------------------------------------------------------------------
Init ==
    /\ store \in {InitializeInstanceId(StoreDefaults, i) : i \in InstanceIds}
    /\ heartbeatInterval = FALSE
    /\ hbTimers = 0
    /\ tickDue = FALSE
    /\ now = Epoch
    /\ uptime \in StartUptimes
    /\ skew = 0
    /\ alive = TRUE
    /\ frozen = FALSE
    /\ lock = Unlocked
    /\ windowOk = TRUE
    /\ processStartTime = Epoch
    /\ restarts = 0
    /\ emitted = 0
    /\ sent = 0
    /\ last = NoCall
    /\ uiLogId = NULL
    /\ accumulatedIdle = 0
    /\ lastSystemIdle = 0
    /\ ignoreNextSoftIdleReset = FALSE
    /\ idleSeconds = 0
    /\ suppressTimers = {}
    /\ storage = [l \in LogIds |-> -1]
    /\ fed = <<>>
    /\ osIdle = 0
    /\ inbox = <<>>
    /\ gap = NoGap
    /\ fw = NoWrite
    /\ torn = FALSE
    /\ beLogs = <<>>
    /\ beReqs = [r \in ReqIds |-> NoReq]
    /\ beNow = 0
    /\ beTicks = 0
    /\ idleCheckInterval = FALSE
    /\ uncaught = FALSE
    /\ refreshed = [t |-> NULL, mono |-> NULL, live |-> FALSE, used |-> FALSE]
    /\ starting = NotStarting
    /\ seenIdle = FALSE

Running == alive /\ ~frozen
Elapsed == now - skew - Epoch

\* ------------------------------------------------------------------------
\* Time
\* ------------------------------------------------------------------------
\* d ms pass in a running process with a live heartbeat timer: the callbacks
\* that fell due before the last period have run, the latest one is due now
AdvanceTicking(d) ==
    /\ Running /\ hbTimers > 0 /\ ~tickDue
    /\ Elapsed + d <= MaxTime
    /\ now' = now + d
    /\ uptime' = uptime + d
    /\ store' = IF d > HEARTBEAT_MS
                THEN UpdateHeartbeat(store, now + d - HEARTBEAT_MS,
                                     uptime + d - HEARTBEAT_MS)
                ELSE store
    /\ tickDue' = TRUE
    /\ last' = Ran("advance")
    /\ UNCHANGED <<heartbeatInterval, hbTimers, skew, alive, frozen,
                   lock, windowOk, processStartTime, restarts, emitted, sent>>

\* time passes while no timer callback can run (no timer, suspended, or dead)
AdvanceFree(d) ==
    /\ ~Running \/ hbTimers = 0
    /\ Elapsed + d <= MaxTime
    /\ now' = now + d
    /\ uptime' = IF alive THEN uptime + d ELSE uptime
    /\ tickDue' = (alive /\ hbTimers > 0)
    /\ last' = Ran("advance")
    /\ UNCHANGED <<store, heartbeatInterval, hbTimers, skew, alive, frozen,
                   lock, windowOk, processStartTime, restarts, emitted, sent>>

\* the wall clock is set forward or back
ClockAdjust(delta) ==
    /\ (skew + delta) \in (Adjusts \cup {0})
    /\ now' = now + delta
    /\ skew' = skew + delta
    /\ last' = Ran("adjust")
    /\ UNCHANGED <<store, heartbeatInterval, hbTimers, tickDue, uptime, alive,
                   frozen, lock, windowOk, processStartTime, restarts,
                   emitted, sent>>

\* ------------------------------------------------------------------------
\* Host handlers
\* ------------------------------------------------------------------------
\* the setInterval callback of startTracking
HeartbeatTick ==
    /\ Running /\ tickDue
    /\ store' = UpdateHeartbeat(store, now, uptime)
    /\ tickDue' = FALSE
    /\ last' = Ran("tick")
    /\ UNCHANGED <<heartbeatInterval, hbTimers, now, uptime, skew, alive, frozen,
                   lock, windowOk, processStartTime, restarts, emitted, sent>>

\* startTracking: the record after its five store.set calls
StartTrackingStore(rec, logId, taskId, t, mono, pst) ==
    [UpdateHeartbeat(rec, t, mono) EXCEPT
        !.timerRunning = TRUE, !.currentLogId = logId, !.taskId = taskId,
        !.processStartTime = pst]

\* startTracking: the record is set and a new interval replaces the handle
\* of the previous one, which is not cleared
StartTracking(logId, taskId) ==
    /\ Running
    /\ store' = StartTrackingStore(store, logId, taskId, now, uptime, processStartTime)
    /\ heartbeatInterval' = TRUE
    /\ hbTimers' = hbTimers + 1
    /\ last' = Ran("start")
    /\ UNCHANGED <<tickDue, now, uptime, skew, alive, frozen, lock, windowOk,
                   processStartTime, restarts, emitted, sent>>

\* ipcMain 'timer:start' -> startTracking
TimerStart(logId, taskId) ==
    /\ hbTimers < MaxTimers
    /\ StartTracking(logId, taskId)

\* ipcMain 'timer:stop' -> stopTracking
TimerStop(ok) ==
    /\ Running
    /\ store' = StopTrackingStore(store, ok)
    /\ heartbeatInterval' = FALSE
    /\ hbTimers' = TimersAfterStop
    /\ tickDue' = (tickDue /\ TimersAfterStop > 0)
    /\ last' = Ran("stop")
    /\ UNCHANGED <<now, uptime, skew, alive, frozen, lock, windowOk,
                   processStartTime, restarts, emitted, sent>>

\* mutant of HandleIdleStartStore: the boundary also closes the session
HandleIdleStartStoreClosing(rec, source, t, mono, ok) ==
    ForcedWrite(rec,
                [lastEventSource |-> source, lastActiveAt |-> t,
                 lastActiveAtMonotonic |-> mono, timerRunning |-> FALSE,
                 currentLogId |-> NULL],
                ok)

\* handleIdleStart: the record after its forced write
HandleIdleStartStore(rec, source, t, mono, ok) ==
    ForcedWrite(rec,
                [lastEventSource |-> source, lastActiveAt |-> t,
                 lastActiveAtMonotonic |-> mono],
                ok)

\* handleIdleStart(source)
HandleIdleStart(source, ok) ==
    /\ Running
    /\ store' = HandleIdleStartStore(store, source, now, uptime, ok)
    /\ frozen' = (source = "suspend")
    /\ last' = Ran(source)
    /\ UNCHANGED <<heartbeatInterval, hbTimers, tickDue, now, uptime, skew, alive,
                   windowOk, processStartTime, restarts, emitted, sent>>

\* handleIdleEnd(source) -> reconcileTimestamps
HandleIdleEnd(source, ok) ==
    /\ alive
    /\ source = "resume" <=> frozen
    /\ ReconcileTimestamps(source, store, now, uptime, windowOk, ok)
    /\ frozen' = FALSE
    /\ UNCHANGED <<now, uptime, skew, alive, windowOk, processStartTime, restarts>>

\* powerMonitor lock-screen / suspend
IdleStart(source, ok) ==
    /\ HandleIdleStart(source, ok)
    /\ UNCHANGED lock

\* powerMonitor unlock-screen / resume
IdleEnd(source, ok) ==
    /\ HandleIdleEnd(source, ok)
    /\ UNCHANGED lock

\* ipcMain 'timer:reconcile'
TimerReconcile(ok) ==
    /\ Running
    /\ ReconcileTimestamps("reconcile", store, now, uptime, windowOk, ok)
    /\ UNCHANGED <<now, uptime, skew, alive, frozen, lock, windowOk,
                   processStartTime, restarts>>

\* the window is destroyed (app quitting) while the process still runs
WindowClosed ==
    /\ Running /\ windowOk
    /\ windowOk' = FALSE
    /\ last' = Ran("closed")
    /\ UNCHANGED <<store, heartbeatInterval, hbTimers, tickDue, now, uptime, skew,
                   alive, frozen, lock, processStartTime, restarts, emitted,
                   sent>>

\* powerMonitor shutdown -> handleIdleStart('shutdown'), then the process ends
Shutdown(ok) ==
    /\ Running
    /\ restarts < MaxRestarts
    /\ store' = HandleIdleStartStore(store, "shutdown", now, uptime, ok)
    /\ alive' = FALSE
    /\ heartbeatInterval' = FALSE
    /\ hbTimers' = 0
    /\ tickDue' = FALSE
    /\ uptime' = 0
    /\ lock' = Unlocked
    /\ windowOk' = FALSE
    /\ last' = Ran("shutdown")
    /\ UNCHANGED <<now, skew, frozen, processStartTime, restarts, emitted, sent>>

\* the process is killed, crashes or quits (cleanup() writes nothing)
Crash ==
    /\ alive
    /\ restarts < MaxRestarts
    /\ alive' = FALSE
    /\ frozen' = FALSE
    /\ heartbeatInterval' = FALSE
    /\ hbTimers' = 0
    /\ tickDue' = FALSE
    /\ uptime' = 0
    /\ lock' = Unlocked
    /\ windowOk' = FALSE
    /\ last' = Ran("crash")
    /\ UNCHANGED <<store, now, skew, processStartTime, restarts, emitted, sent>>

\* uuidv4() in a later process: an id no earlier process has generated
NewInstanceId == restarts + 2

\* next process start: constructor, then initialize() with its reconcile
ProcessStartFrom(rec, u0, ok) ==
    /\ ~alive
    /\ alive' = TRUE
    /\ uptime' = u0
    /\ processStartTime' = now
    /\ windowOk' = TRUE
    /\ restarts' = restarts + 1
    /\ ReconcileTimestamps("initialize", InitializeInstanceId(rec, NewInstanceId),
                           now, u0, TRUE, ok)
    /\ UNCHANGED <<now, skew, frozen, lock>>

ProcessStart(u0, ok) == ProcessStartFrom(store, u0, ok)

Next ==
    \/ \E d \in Steps : AdvanceTicking(d) /\ UNCHANGED nonHostVars
    \/ \E d \in Steps : AdvanceFree(d) /\ UNCHANGED nonHostVars
    \/ \E delta \in Adjusts : ClockAdjust(delta) /\ UNCHANGED nonHostVars
    \/ HeartbeatTick /\ UNCHANGED nonHostVars
    \/ \E l \in LogIds, k \in TaskIds : TimerStart(l, k) /\ UNCHANGED nonHostVars
    \/ \E ok \in BOOLEAN : TimerStop(ok) /\ UNCHANGED nonHostVars
    \/ \E s \in IdleStartSources, ok \in BOOLEAN : IdleStart(s, ok) /\ UNCHANGED nonHostVars
    \/ \E s \in IdleEndSources, ok \in BOOLEAN : IdleEnd(s, ok) /\ UNCHANGED nonHostVars
    \/ \E ok \in BOOLEAN : TimerReconcile(ok) /\ UNCHANGED nonHostVars
    \/ \E ok \in BOOLEAN : Shutdown(ok) /\ UNCHANGED nonHostVars
    \/ Crash /\ UNCHANGED nonHostVars
    \/ \E u0 \in StartUptimes, ok \in BOOLEAN : ProcessStart(u0, ok) /\ UNCHANGED nonHostVars

Spec == Init /\ [][Next]_vars


\* ------------------------------------------------------------------------
\* Claims
\* ------------------------------------------------------------------------
Reconciled == last.op \in ReconcileOps
\* the two gaps of the reconcile call recorded in `last` (the clocks do not move
\* during the call)
LastMonotonicGap == uptime - last.pre.lastActiveAtMonotonic
LastSystemGap == now - last.pre.lastActiveAt

C3_ClockTamperingIff ==
    (Reconciled /\ last.built = 1)
    => /\ last.ret.clockTampering
            <=> (Abs(LastSystemGap - LastMonotonicGap) > 30000)
       /\ last.ret.idleSeconds = LastMonotonicGap \div 1000

\* a built event whose gaps differ by exactly 30000 ms: not flagged, and its
\* idleSeconds is not the wall clock's
C3_Witness ==
    /\ Reconciled
    /\ last.built = 1
    /\ LastSystemGap - LastMonotonicGap = 30000
    /\ ~last.ret.clockTampering
    /\ last.ret.idleSeconds # LastSystemGap \div 1000

\* C4: a reconcile call that finds timerRunning false builds and sends nothing
\* and changes no field of the record; and timerRunning, once false, stays false
\* until startTracking, so a session closed by reconcile yields no further event.
C4_NoOpWhenNotRunning ==
    [][/\ (last'.op \in ReconcileOps /\ ~store.timerRunning)
            => /\ store' = store
               /\ emitted' = emitted
               /\ sent' = sent
               /\ last'.ret = NoEvent
       /\ (~store.timerRunning /\ store'.timerRunning) => last'.op = "start"]_vars

\* a reconcile call closed a session and the call after it did nothing
C4_Witness ==
    /\ Reconciled
    /\ ~last.pre.timerRunning
    /\ last.pre.lastEventSource = "timer-stopped"
    /\ last.pre.lastActiveAtMonotonic + 60000 < uptime
    /\ emitted = 1
    /\ store = last.pre


\* C5 as claimed: when a process starts more than 60 s (wall clock never
\* adjusted) after the last heartbeat of a session that was running when the
\* previous process died, the reconcile of initialize() builds one idle event
\* and closes the session.
C5_CrashGapDetected ==
    (/\ last.op = "initialize"
     /\ last.pre.timerRunning
     /\ skew = 0
     /\ LastSystemGap > 60000)
    => /\ last.built = 1
       /\ ~store.timerRunning

\* C9 as claimed: after reconcile has reported a gap the host goes on tracking
\* the session: timer still running for the same log, heartbeat reset and its
\* interval alive, so that a later gap in the session can be reported too.
C9_TrackingContinuesAfterEvent ==
    (Reconciled /\ last.built = 1)
    => /\ store.timerRunning
       /\ store.currentLogId = last.pre.currentLogId
       /\ store.lastActiveAtMonotonic = uptime
       /\ heartbeatInterval

C20_EventOnlyFromMonotonicGap ==
    Reconciled
    => /\ last.ret.idleSeconds >= 0
       /\ (last.built = 1 \/ last.ret.gapDetected)
            => /\ LastMonotonicGap > IDLE_GAP_MS
               /\ last.ret.gapDetected
               /\ last.built = 1
       /\ last.pre.lastActiveAtMonotonic > uptime
            => (last.ret = NoEvent /\ last.built = 0 /\ last.sentNow = 0)

\* an event has been emitted, and the next process found a running session
\* whose monotonic heartbeat is more than 60 s ahead of its own clock
C20_Witness ==
    /\ emitted > 0
    /\ last.op = "initialize"
    /\ last.pre.timerRunning
    /\ last.pre.lastActiveAtMonotonic - uptime > IDLE_GAP_MS
    /\ last.ret = NoEvent

\* a step inside one process lifetime
SameProcess == alive /\ alive' /\ restarts' = restarts

\* C21 as claimed: within one process lifetime the persisted
\* lastActiveAtMonotonic never decreases.
C21_Claimed ==
    [][SameProcess
         => store'.lastActiveAtMonotonic >= store.lastActiveAtMonotonic]_vars

\* C21 amended: within one process lifetime the persisted
\* lastActiveAtMonotonic never decreases once it is a value of this process's
\* monotonic clock; a value left by an earlier process that is ahead of the
\* clock is lowered to the clock by the first write.
C21_MonotonicNonDecreasing ==
    [][(SameProcess /\ store.lastActiveAtMonotonic <= uptime)
         => /\ store'.lastActiveAtMonotonic >= store.lastActiveAtMonotonic
            /\ store'.lastActiveAtMonotonic <= uptime']_vars

\* time has passed since the process wrote its first heartbeat, and a later
\* write (tick, idle start or refresh) raised the stored value
C21_Witness ==
    /\ alive
    /\ store.timerRunning
    /\ store.lastEventSource \in IdleStartSources
    /\ store.lastActiveAtMonotonic = uptime
    /\ uptime > HEARTBEAT_MS + IDLE_GAP_MS

\* ------------------------------------------------------------------------
\* Lock and unlock of the screen under a running session, with the lock's
\* duration recorded
\* ------------------------------------------------------------------------
\* startTracking of a session before the screen is locked
StartBeforeLock(logId, taskId) ==
    /\ ~store.timerRunning
    /\ ~lock.held
    /\ TimerStart(logId, taskId)
    /\ UNCHANGED lock

\* powerMonitor lock-screen while a session runs
LockScreen(ok) ==
    /\ store.timerRunning
    /\ ~lock.held
    /\ HandleIdleStart("lock", ok)
    /\ lock' = [at |-> uptime, held |-> TRUE]

\* powerMonitor unlock-screen
UnlockScreen(ok) ==
    /\ lock.held
    /\ HandleIdleEnd("unlock", ok)
    /\ lock' = [lock EXCEPT !.held = FALSE]

NextLock ==
    \/ \E l \in LogIds, k \in TaskIds : StartBeforeLock(l, k) /\ UNCHANGED nonHostVars
    \/ \E ok \in BOOLEAN : LockScreen(ok) /\ UNCHANGED nonHostVars
    \/ \E ok \in BOOLEAN : UnlockScreen(ok) /\ UNCHANGED nonHostVars
    \/ \E d \in Steps : AdvanceTicking(d) /\ UNCHANGED nonHostVars
    \/ \E d \in Steps : AdvanceFree(d) /\ UNCHANGED nonHostVars
    \/ HeartbeatTick /\ UNCHANGED nonHostVars

SpecLock == Init /\ [][NextLock]_vars

\* C6 as claimed: when the screen was locked under a running session and is
\* unlocked more than 60 s later, the reconcile of unlock-screen builds one idle
\* event whose idleSeconds is the lock's duration.
C6_LockGapDetected ==
    (/\ last.op = "unlock"
     /\ last.pre.timerRunning
     /\ ~lock.held
     /\ uptime - lock.at > 60000)
    => /\ last.built = 1
       /\ last.ret.idleSeconds = (uptime - lock.at) \div 1000



\* ipcMain 'start-idle-monitoring': an interval left from an earlier call is
\* cleared before the new one is created.
StartIdleMonitoring == idleCheckInterval' = TRUE

\* ipcMain 'stop-idle-monitoring'
StopIdleMonitoring == idleCheckInterval' = FALSE

(***************************************************************************)
(* The idle accumulator of the UI (src/src/hooks/useTimer.ts).  Idle times *)
(* are whole seconds here, as in the hook.                                 *)
(***************************************************************************)
SampleValues == {0, 2, 5, 30, 65, 70}
AwaySteps == {30, 65}
UiSteps == {1000, 2000}

\* persistIdleState(): writes the accumulated total under the current log.
PersistIdleState(st, logId, value) ==
    IF logId = NULL THEN st ELSE [st EXCEPT ![logId] = value]

\* mutant of SoftReset: the threshold test on the previous sample is missing
SoftResetOnAnyDrop(prev, s) == s < prev

\* The reset test of onIdleTimeUpdate: the sample dropped below a previous
\* sample that had reached the threshold.
SoftReset(prev, s) == s < prev /\ prev >= IDLE_THRESHOLD

\* mutant of DisplayedIdle: the current sample is added whatever its size
DisplayedIdleAnySample(acc, s) == acc + s

\* The total shown after a sample: the accumulated total plus the current
\* soft idle once it has reached the threshold.
DisplayedIdle(acc, s) == acc + (IF s >= IDLE_THRESHOLD THEN s ELSE 0)

\* The onIdleTimeUpdate listener; it exists only while a log is current.
OnIdleTimeUpdate(s) ==
    /\ uiLogId # NULL
    /\ LET folds == SoftReset(lastSystemIdle, s) /\ ~ignoreNextSoftIdleReset
           acc == IF folds THEN accumulatedIdle + lastSystemIdle
                  ELSE accumulatedIdle
       IN /\ accumulatedIdle' = acc
          /\ storage' = IF folds THEN PersistIdleState(storage, uiLogId, acc)
                        ELSE storage
          /\ idleSeconds' = DisplayedIdle(acc, s)
    /\ lastSystemIdle' = s
    /\ UNCHANGED <<uiLogId, ignoreNextSoftIdleReset, suppressTimers>>

\* The onIdleEvent listener, subscribed for the whole life of the hook.
OnIdleEvent(ev) ==
    /\ accumulatedIdle' = accumulatedIdle + ev.idleSeconds
    /\ idleSeconds' = accumulatedIdle'
    /\ IF ev.idleSeconds >= IDLE_THRESHOLD
       THEN /\ storage' = PersistIdleState(storage, uiLogId, accumulatedIdle')
            /\ ignoreNextSoftIdleReset' = TRUE
            /\ suppressTimers' = suppressTimers \cup {SUPPRESS_MS}
       ELSE UNCHANGED <<storage, ignoreNextSoftIdleReset, suppressTimers>>
    /\ UNCHANGED <<uiLogId, lastSystemIdle>>

\* The callback of the 2 s setTimeout armed by onIdleEvent.
SuppressTimeout ==
    /\ 0 \in suppressTimers
    /\ suppressTimers' = suppressTimers \ {0}
    /\ ignoreNextSoftIdleReset' = FALSE
    /\ UNCHANGED <<uiLogId, accumulatedIdle, lastSystemIdle, idleSeconds,
                   storage, fed, osIdle, inbox, gap>>
    /\ UNCHANGED <<hostVars, idleCheckInterval>>

\* handleStartTimer, online path: the new log becomes current, the total is
\* reset and stored, and the host starts tracking.
HandleStartTimer(logId, taskId) ==
    /\ uiLogId = NULL
    /\ TimerStart(logId, taskId)
    /\ uiLogId' = logId
    /\ idleSeconds' = 0
    /\ accumulatedIdle' = 0
    /\ storage' = [storage EXCEPT ![logId] = 0]
    /\ StartIdleMonitoring
    /\ UNCHANGED <<lastSystemIdle, ignoreNextSoftIdleReset, suppressTimers,
                   fed, osIdle, inbox, gap>>

\* One soft-idle sample of a recorded stream reaches the listener.
SampleFed(s) ==
    /\ Len(fed) < MaxSamples
    /\ OnIdleTimeUpdate(s)
    /\ fed' = Append(fed, s)
    /\ UNCHANGED <<osIdle, inbox, gap>>
    /\ UNCHANGED <<hostVars, idleCheckInterval>>

NextSoft ==
    \/ \E k \in TaskIds : HandleStartTimer(1, k) /\ UNCHANGED sideVars
    \/ \E s \in SampleValues : SampleFed(s) /\ UNCHANGED sideVars

SpecSoft == Init /\ [][NextSoft]_vars

\* The total the soft-idle rule prescribes for a sample stream: every sample
\* that is followed by a lower one and had reached the threshold, summed.
RECURSIVE SoftIdleTotal(_)
SoftIdleTotal(samples) ==
    IF Len(samples) < 2 THEN 0
    ELSE LET n == Len(samples)
             prev == samples[n - 1]
         IN SoftIdleTotal(SubSeq(samples, 1, n - 1))
            + (IF samples[n] < prev /\ prev >= IDLE_THRESHOLD THEN prev ELSE 0)

ExampleStream == <<0, 5, 30, 65, 70, 2, 0>>

\* C7: with no hard event, a sample lower than the previous sample folds the
\* previous sample into the total exactly when that sample had reached 60 s,
\* and every sample becomes the remembered one; the stream
\* 0, 5, 30, 65, 70, 2, 0 leaves a total of exactly 70.
C7_SoftIdleFold ==
    /\ accumulatedIdle = SoftIdleTotal(fed)
    /\ fed # <<>> => lastSystemIdle = fed[Len(fed)]
    /\ fed = ExampleStream => accumulatedIdle = 70

C7_Witness ==
    /\ fed = ExampleStream
    /\ accumulatedIdle = 70
    /\ storage[1] = 70


(***************************************************************************)
(* The UI together with the two streams that feed it: the samples of the   *)
(* host's 1 Hz idle check (powerMonitor.getSystemIdleTime) and the idle    *)
(* events of the IdleManager.  A gap ends when the user returns; the host  *)
(* then may report it as a hard event, and the next sample shows the reset.*)
(***************************************************************************)

\* The user stays away n more seconds; no timer of the UI is pending.
UserAway(n) ==
    /\ uiLogId # NULL
    /\ suppressTimers = {}
    /\ gap.n < MaxGaps
    /\ osIdle + n <= MaxIdle
    /\ osIdle' = osIdle + n
    /\ gap' = [gap EXCEPT !.open = FALSE]
    /\ UNCHANGED <<uiLogId, accumulatedIdle, lastSystemIdle,
                   ignoreNextSoftIdleReset, idleSeconds, suppressTimers,
                   storage, fed, inbox>>
    /\ UNCHANGED <<hostVars, idleCheckInterval>>

\* The user returns: the system idle time restarts from 0 and, when hard,
\* the host sends one idle event carrying the length of the gap.
UserReturns(hard) ==
    /\ uiLogId # NULL
    /\ osIdle > 0
    /\ gap.n < MaxGaps
    /\ hard => osIdle >= IDLE_THRESHOLD
    /\ osIdle' = 0
    /\ inbox' = IF hard
                THEN Append(inbox, [NoEvent EXCEPT !.idleSeconds = osIdle,
                                                   !.source = "lock",
                                                   !.logId = uiLogId,
                                                   !.gapDetected = TRUE])
                ELSE inbox
    /\ gap' = [n |-> gap.n + 1, base |-> accumulatedIdle,
               hard |-> IF hard THEN osIdle ELSE 0, open |-> hard]
    /\ UNCHANGED <<uiLogId, accumulatedIdle, lastSystemIdle,
                   ignoreNextSoftIdleReset, idleSeconds, suppressTimers,
                   storage, fed>>
    /\ UNCHANGED <<hostVars, idleCheckInterval>>

\* The idle check of the host sends the current system idle time.
SampleArrives ==
    /\ idleCheckInterval
    /\ OnIdleTimeUpdate(osIdle)
    /\ UNCHANGED <<fed, osIdle, inbox, gap>>
    /\ UNCHANGED <<hostVars, idleCheckInterval>>

\* The oldest idle event in flight reaches the onIdleEvent listener.
IdleEventArrives ==
    /\ inbox # <<>>
    /\ OnIdleEvent(Head(inbox))
    /\ inbox' = Tail(inbox)
    /\ UNCHANGED <<fed, osIdle, gap>>
    /\ UNCHANGED <<hostVars, idleCheckInterval>>

\* d ms pass in the UI while the user is active.
UiAdvance(d) ==
    /\ osIdle = 0
    /\ suppressTimers # {}
    /\ \A t \in suppressTimers : t >= d
    /\ suppressTimers' = {t - d : t \in suppressTimers}
    /\ UNCHANGED <<uiLogId, accumulatedIdle, lastSystemIdle,
                   ignoreNextSoftIdleReset, idleSeconds, storage, fed, osIdle,
                   inbox, gap>>
    /\ UNCHANGED <<hostVars, idleCheckInterval>>

NextUI ==
    \/ \E l \in LogIds, k \in TaskIds : HandleStartTimer(l, k) /\ UNCHANGED sideVars
    \/ \E n \in AwaySteps : UserAway(n) /\ UNCHANGED sideVars
    \/ \E hard \in BOOLEAN : UserReturns(hard) /\ UNCHANGED sideVars
    \/ SampleArrives /\ UNCHANGED sideVars
    \/ IdleEventArrives /\ UNCHANGED sideVars
    \/ SuppressTimeout /\ UNCHANGED sideVars
    \/ \E d \in UiSteps : UiAdvance(d) /\ UNCHANGED sideVars

SpecUI == Init /\ [][NextUI]_vars

\* Both signals of the last gap have been processed: its hard event and the
\* sample that shows the reset.
GapSettled ==
    /\ gap.open
    /\ inbox = <<>>
    /\ osIdle = 0
    /\ lastSystemIdle = 0

\* C8: a gap that produced both a hard event and a soft-idle reset adds the
\* hard event's idleSeconds to the total and nothing else, whatever the
\* order of the two signals and the delay between them.
C8_NoDoubleCounting ==
    GapSettled => accumulatedIdle = gap.base + gap.hard


(***************************************************************************)
(* forcedWrite step by step.  fs.writeFileSync opens the store file with   *)
(* flag 'w', which truncates it, then writes the new document; the keys    *)
(* are set through the store afterwards.  The process can die between any  *)
(* two steps.  What electron-store does with an unparsable file at the     *)
(* next start is the library's choice: it resets to the defaults or throws.*)
(***************************************************************************)
BootOutcomes == {"reset", "throws"}

Quiet == fw.pc \in {"none", "returned"}

\* fs.writeFileSync has opened the file: the old document is gone.
ForcedWriteBegins(caller, new) ==
    /\ torn' = TRUE
    /\ fw' = [fw EXCEPT !.pc = "truncated", !.caller = caller,
                        !.old = store, !.new = new]

\* stopTracking up to the open of its forced write.
StopTrackingBegins ==
    /\ Running /\ Quiet
    /\ heartbeatInterval' = FALSE
    /\ hbTimers' = TimersAfterStop
    /\ tickDue' = (tickDue /\ TimersAfterStop > 0)
    /\ last' = Ran("stop")
    /\ ForcedWriteBegins("stop", StopTrackingStore(store, TRUE))
    /\ UNCHANGED <<store, now, uptime, skew, alive, frozen, lock, windowOk,
                   processStartTime, restarts, emitted, sent>>

\* handleIdleStart up to the open of its forced write.
HandleIdleStartBegins(source) ==
    /\ Running /\ Quiet
    /\ last' = Ran(source)
    /\ ForcedWriteBegins("idle",
                         HandleIdleStartStore(store, source, now, uptime, TRUE))
    /\ UNCHANGED <<store, heartbeatInterval, hbTimers, tickDue, now, uptime,
                   skew, alive, frozen, lock, windowOk, processStartTime,
                   restarts, emitted, sent>>

\* fs.writeFileSync has written the whole document.
ForcedWriteData ==
    /\ alive /\ fw.pc = "truncated"
    /\ store' = fw.new
    /\ torn' = FALSE
    /\ fw' = [fw EXCEPT !.pc = "written"]
    /\ UNCHANGED <<heartbeatInterval, hbTimers, tickDue, now, uptime, skew,
                   alive, frozen, lock, windowOk, processStartTime, restarts,
                   emitted, sent, last>>

\* The keys are set through the store and forcedWrite returns; after
\* handleIdleStart('suspend') the system suspends the process.
ForcedWriteReturns ==
    /\ alive /\ fw.pc = "written"
    /\ fw' = [fw EXCEPT !.pc = "returned"]
    /\ frozen' = (fw.caller = "idle" /\ fw.new.lastEventSource = "suspend")
    /\ UNCHANGED <<store, heartbeatInterval, hbTimers, tickDue, now, uptime,
                   skew, alive, lock, windowOk, processStartTime, restarts,
                   emitted, sent, last, torn>>

\* 'timer:start' between forced writes.
StartBetweenWrites(logId, taskId) ==
    /\ Quiet
    /\ TimerStart(logId, taskId)
    /\ fw' = [fw EXCEPT !.pc = "none"]
    /\ UNCHANGED torn

\* Time passes between forced writes.
TickBetweenWrites(d) ==
    /\ Quiet
    /\ AdvanceTicking(d)
    /\ fw' = [fw EXCEPT !.pc = "none"]
    /\ UNCHANGED torn

\* The process dies, at whatever step a forced write is.
ProcessDies ==
    /\ Crash
    /\ fw' = [fw EXCEPT !.pc = "none", !.diedAt = fw.pc, !.boot = "none"]
    /\ UNCHANGED torn

\* The next process constructs its store from the file.
ProcessRestarts(u0, outcome) ==
    /\ restarts < MaxRestarts
    /\ IF ~torn
       THEN /\ ProcessStart(u0, TRUE)
            /\ fw' = [fw EXCEPT !.boot = "record", !.read = store]
            /\ UNCHANGED torn
       ELSE IF outcome = "reset"
       THEN /\ ProcessStartFrom(StoreDefaults, u0, TRUE)
            /\ fw' = [fw EXCEPT !.boot = "reset", !.read = StoreDefaults]
            /\ torn' = FALSE
       ELSE /\ ~alive
            /\ restarts' = restarts + 1
            /\ fw' = [fw EXCEPT !.boot = "throws"]
            /\ UNCHANGED <<store, heartbeatInterval, hbTimers, tickDue, now,
                           uptime, skew, alive, frozen, lock, windowOk,
                           processStartTime, emitted, sent, last, torn>>

NextFW ==
    \/ \E l \in LogIds, k \in TaskIds : StartBetweenWrites(l, k) /\ UNCHANGED nonWriteVars
    \/ \E d \in Steps : TickBetweenWrites(d) /\ UNCHANGED nonWriteVars
    \/ StopTrackingBegins /\ UNCHANGED nonWriteVars
    \/ \E s \in IdleStartSources : HandleIdleStartBegins(s) /\ UNCHANGED nonWriteVars
    \/ ForcedWriteData /\ UNCHANGED nonWriteVars
    \/ ForcedWriteReturns /\ UNCHANGED nonWriteVars
    \/ ProcessDies /\ UNCHANGED nonWriteVars
    \/ \E u0 \in StartUptimes, o \in BootOutcomes : ProcessRestarts(u0, o) /\ UNCHANGED nonWriteVars

SpecFW == Init /\ [][NextFW]_vars

\* C10: a process that died at any step of forcedWrite(updates) leaves a file
\* from which the next start reads the complete old record or the complete
\* old record merged with updates; and a process that died right after
\* stopTracking's forcedWrite returned is read as timerRunning = false.
C10_ForcedWriteAtomic ==
    /\ (fw.boot # "none" /\ fw.diedAt \in {"truncated", "written"})
          => (fw.boot = "record" /\ fw.read \in {fw.old, fw.new})
    /\ (fw.boot # "none" /\ fw.diedAt = "returned" /\ fw.caller = "stop")
          => (fw.boot = "record" /\ ~fw.read.timerRunning)

(***************************************************************************)
(* Stop and reload in the UI.  handleStopTimer (online path) stops the     *)
(* host and clears the session; a page reload builds the hook anew and     *)
(* restoreActiveTimer takes up the log the backend still holds open.       *)
(***************************************************************************)
BackendIdles == {0}

\* clearIdleState(logId)
ClearIdleState(st, logId) ==
    IF logId = NULL THEN st ELSE [st EXCEPT ![logId] = -1]

\* mutant of LoadIdleState: the backend's value wins
LoadIdleStateFromBackend(st, logId, fallback) == fallback

\* loadIdleState(logId, fallback)
LoadIdleState(st, logId, fallback) ==
    IF st[logId] < 0 THEN fallback ELSE st[logId]

\* handleStopTimer, online path, the backend having accepted the stop.
HandleStopTimer(ok) ==
    /\ uiLogId # NULL
    /\ TimerStop(ok)
    /\ uiLogId' = NULL
    /\ idleSeconds' = 0
    /\ storage' = ClearIdleState(storage, uiLogId)
    /\ StopIdleMonitoring
    /\ UNCHANGED <<accumulatedIdle, lastSystemIdle, ignoreNextSoftIdleReset,
                   suppressTimers, fed, osIdle, inbox, gap>>

\* The page is reloaded while the session runs: every ref starts from its
\* initial value, then restoreActiveTimer runs for the open log.
RestoreActiveTimer(backendIdle) ==
    /\ uiLogId # NULL
    /\ hbTimers < MaxTimers + MaxReloads
    /\ StartTracking(uiLogId, store.taskId)
    /\ LET restoredIdle == LoadIdleState(storage, uiLogId, backendIdle)
       IN /\ accumulatedIdle' = restoredIdle
          /\ idleSeconds' = restoredIdle
          /\ storage' = PersistIdleState(storage, uiLogId, restoredIdle)
    /\ lastSystemIdle' = 0
    /\ ignoreNextSoftIdleReset' = FALSE
    /\ suppressTimers' = {}
    /\ StartIdleMonitoring
    /\ UNCHANGED <<uiLogId, fed, osIdle, inbox, gap>>

NextReload ==
    \/ \E l \in LogIds, k \in TaskIds : HandleStartTimer(l, k) /\ UNCHANGED sideVars
    \/ \E b \in BackendIdles : RestoreActiveTimer(b) /\ UNCHANGED sideVars
    \/ \E ok \in BOOLEAN : HandleStopTimer(ok) /\ UNCHANGED sideVars
    \/ \E d \in Steps : AdvanceTicking(d) /\ UNCHANGED nonHostVars
    \/ \E d \in Steps : AdvanceFree(d) /\ UNCHANGED nonHostVars
    \/ HeartbeatTick /\ UNCHANGED nonHostVars

SpecReload == Init /\ [][NextReload]_vars

\* C12: between the return of stopTracking and the next startTracking no
\* timer tick writes lastActiveAt or lastActiveAtMonotonic, also when
\* startTracking ran more than once before the stop.
C12_NoHeartbeatAfterStop ==
    [][(~heartbeatInterval /\ ~heartbeatInterval' /\ tickDue # tickDue')
         => /\ store'.lastActiveAt = store.lastActiveAt
            /\ store'.lastActiveAtMonotonic = store.lastActiveAtMonotonic]_vars

(***************************************************************************)
(* The backend's start and stop endpoints (src/unnamed/part_019).  A start *)
(* request runs its two checks and its INSERT as separate queries, with no *)
(* transaction around them; database time is in ms.                        *)
(***************************************************************************)
Users == {1}
RequestInstances == {NULL, 1}
BackendSteps == {40400, 172800600}
NotANumber == [nan |-> TRUE, v |-> 0]
SubmittedIdles ==
    {NotANumber} \cup {[nan |-> FALSE, v |-> n] : n \in {-5, 50, 200000}}

\* Number(idle_seconds) || 0
NumberOrZero(x) == IF x.nan THEN 0 ELSE x.v

\* Math.max(0, Math.round(seconds)) of a span given in ms
RoundSeconds(ms) == IF ms < 0 THEN 0 ELSE (ms + 500) \div 1000

Min(a, b) == IF a < b THEN a ELSE b

\* mutant of ClampIdle: the comparison with the duration is missing
ClampIdleWithoutDuration(idle, durationSeconds) ==
    LET a == IF idle < 0 THEN 0 ELSE idle
    IN IF a > MAX_IDLE_SECONDS THEN Min(a, MAX_IDLE_SECONDS) ELSE a

\* the three sanity checks of the stop endpoint, in the order of the code
ClampIdle(idle, durationSeconds) ==
    LET a == IF idle < 0 THEN 0 ELSE idle
        b == IF a > durationSeconds THEN durationSeconds ELSE a
    IN IF b > MAX_IDLE_SECONDS THEN Min(b, MAX_IDLE_SECONDS) ELSE b

OpenLogs == {i \in DOMAIN beLogs : beLogs[i].open}

\* The request arrives and the 'active timer' query of the user finds none.
StartChecksUser(r, u, inst) ==
    /\ beReqs[r].pc = "none"
    /\ \A q \in ReqIds : q < r => beReqs[q].pc # "none"   \* lowest free slot
    /\ \A i \in OpenLogs : beLogs[i].user # u
    /\ beReqs' = [beReqs EXCEPT ![r] = [user |-> u, instance |-> inst,
                                        pc |-> "userOk"]]
    /\ UNCHANGED <<beLogs, beNow, beTicks>>

\* The instance query finds no open log of the instance (none is run when
\* the request carries no instance_id).
StartChecksInstance(r) ==
    /\ beReqs[r].pc = "userOk"
    /\ beReqs[r].instance # NULL
          => \A i \in OpenLogs : beLogs[i].instance # beReqs[r].instance
    /\ beReqs' = [beReqs EXCEPT ![r].pc = "instanceOk"]
    /\ UNCHANGED <<beLogs, beNow, beTicks>>

\* Either query finds an open log: 400 or 409, nothing is inserted.
StartRejected(r) ==
    /\ beReqs[r].pc = "userOk"
    /\ beReqs[r].instance # NULL
    /\ \E i \in OpenLogs : beLogs[i].instance = beReqs[r].instance
    /\ beReqs' = [beReqs EXCEPT ![r] = NoReq]
    /\ UNCHANGED <<beLogs, beNow, beTicks>>

\* INSERT INTO time_logs ... started_at = NOW()
StartInserts(r) ==
    /\ beReqs[r].pc = "instanceOk"
    /\ Len(beLogs) < MaxRows
    /\ beLogs' = Append(beLogs,
                        [user |-> beReqs[r].user, instance |-> beReqs[r].instance,
                         startedAt |-> beNow, open |-> TRUE, durationSeconds |-> 0,
                         idle |-> 0, productive |-> 0])
    /\ beReqs' = [beReqs EXCEPT ![r] = NoReq]
    /\ UNCHANGED <<beNow, beTicks>>

\* POST /api/time-logs/stop for an open log of the user.
StopLog(id, submitted) ==
    /\ id \in OpenLogs
    /\ LET durationSeconds == RoundSeconds(beNow - beLogs[id].startedAt)
           idle == ClampIdle(NumberOrZero(submitted), durationSeconds)
       IN beLogs' = [beLogs EXCEPT ![id].open = FALSE,
                                   ![id].durationSeconds = durationSeconds,
                                   ![id].idle = idle,
                                   ![id].productive = durationSeconds - idle]
    /\ UNCHANGED <<beReqs, beNow, beTicks>>

\* Database time advances.
BackendTime(d) ==
    /\ beTicks < MaxBackendTicks
    /\ beNow' = beNow + d
    /\ beTicks' = beTicks + 1
    /\ UNCHANGED <<beLogs, beReqs>>

NextBackend ==
    \/ \E r \in ReqIds, u \in Users, i \in RequestInstances :
          StartChecksUser(r, u, i) /\ UNCHANGED nonBackendVars
    \/ \E r \in ReqIds : StartChecksInstance(r) /\ UNCHANGED nonBackendVars
    \/ \E r \in ReqIds : StartRejected(r) /\ UNCHANGED nonBackendVars
    \/ \E r \in ReqIds : StartInserts(r) /\ UNCHANGED nonBackendVars
    \/ \E id \in 1..MaxRows, x \in SubmittedIdles :
          StopLog(id, x) /\ UNCHANGED nonBackendVars
    \/ \E d \in BackendSteps : BackendTime(d) /\ UNCHANGED nonBackendVars

SpecBackend == Init /\ [][NextBackend]_vars

\* A start request served alone: both checks pass and the row is inserted.
StartServed(u, inst) ==
    /\ \A r \in ReqIds : beReqs[r].pc = "none"
    /\ \A i \in OpenLogs : beLogs[i].user # u
    /\ inst # NULL => \A i \in OpenLogs : beLogs[i].instance # inst
    /\ Len(beLogs) < MaxRows
    /\ beLogs' = Append(beLogs,
                        [user |-> u, instance |-> inst,
                         startedAt |-> beNow, open |-> TRUE, durationSeconds |-> 0,
                         idle |-> 0, productive |-> 0])
    /\ UNCHANGED <<beReqs, beNow, beTicks>>

NextStop ==
    \/ \E u \in Users, i \in RequestInstances :
          StartServed(u, i) /\ UNCHANGED nonBackendVars
    \/ \E id \in 1..MaxRows, x \in SubmittedIdles :
          StopLog(id, x) /\ UNCHANGED nonBackendVars
    \/ \E d \in BackendSteps : BackendTime(d) /\ UNCHANGED nonBackendVars

SpecStop == Init /\ [][NextStop]_vars

\* C13: every stopped log holds 0 <= idle <= durationSeconds, idle <= 48 h
\* and productive = durationSeconds - idle >= 0, whatever idle_seconds the
\* request carried.
C13_IdleClamped ==
    \A i \in DOMAIN beLogs :
        ~beLogs[i].open =>
            /\ 0 <= beLogs[i].idle
            /\ beLogs[i].idle <= beLogs[i].durationSeconds
            /\ beLogs[i].idle <= 172800
            /\ beLogs[i].productive = beLogs[i].durationSeconds - beLogs[i].idle
            /\ beLogs[i].productive >= 0

C13_Witness ==
    /\ \E i \in DOMAIN beLogs :
          /\ ~beLogs[i].open
          /\ beLogs[i].durationSeconds > 172800
          /\ beLogs[i].idle = 172800
    /\ \E i \in DOMAIN beLogs :
          /\ ~beLogs[i].open
          /\ beLogs[i].durationSeconds = 40
          /\ beLogs[i].idle = 40

\* C18: the backend never holds two open logs of one user, nor two open
\* logs of one instance, whatever the interleaving of the start requests.
C18_SingleRunningSession ==
    \A i, j \in OpenLogs :
        i # j =>
            /\ beLogs[i].user # beLogs[j].user
            /\ beLogs[i].instance = NULL \/ beLogs[i].instance # beLogs[j].instance

(***************************************************************************)
(* The UI with its whole session cycle: start, idle events and samples,    *)
(* reload, stop.  Idle events come in with whatever idleSeconds and logId  *)
(* the host put into them and are handled when they arrive.                *)
(***************************************************************************)
EventIdles == {30, 65}

\* The host sends an idle event; it is in flight until the listener runs.
HostSendsIdleEvent(idle, logId) ==
    /\ gap.n < MaxGaps
    /\ inbox' = Append(inbox, [NoEvent EXCEPT !.idleSeconds = idle,
                                              !.source = "suspend",
                                              !.logId = logId,
                                              !.gapDetected = TRUE])
    /\ gap' = [n |-> gap.n + 1, base |-> accumulatedIdle, hard |-> idle,
               open |-> FALSE]
    /\ UNCHANGED <<uiLogId, accumulatedIdle, lastSystemIdle,
                   ignoreNextSoftIdleReset, idleSeconds, suppressTimers,
                   storage, fed, osIdle>>
    /\ UNCHANGED <<hostVars, idleCheckInterval>>

NextEvents ==
    \/ \E l \in LogIds, k \in TaskIds : HandleStartTimer(l, k) /\ UNCHANGED sideVars
    \/ \E ok \in BOOLEAN : HandleStopTimer(ok) /\ UNCHANGED sideVars
    \/ \E b \in BackendIdles : RestoreActiveTimer(b) /\ UNCHANGED sideVars
    \/ \E n \in EventIdles, l \in LogIds : HostSendsIdleEvent(n, l) /\ UNCHANGED sideVars
    \/ IdleEventArrives /\ UNCHANGED sideVars
    \/ \E n \in AwaySteps : UserAway(n) /\ UNCHANGED sideVars
    \/ UserReturns(FALSE) /\ UNCHANGED sideVars
    \/ SampleArrives /\ UNCHANGED sideVars
    \/ SuppressTimeout /\ UNCHANGED sideVars
    \/ \E d \in UiSteps : UiAdvance(d) /\ UNCHANGED sideVars

SpecEvents == Init /\ [][NextEvents]_vars

HandlesIdleEvent == inbox # <<>> /\ inbox' = Tail(inbox)

\* C15: an idle event whose logId is not the UI's current session changes
\* neither the accumulated nor the displayed idle seconds of that session,
\* and one that arrives when no session is active starts none and leaves the
\* host record as the stop left it.
C15_StaleEventIgnored ==
    [][HandlesIdleEvent =>
         /\ (uiLogId # NULL /\ Head(inbox).logId # uiLogId)
               => /\ accumulatedIdle' = accumulatedIdle
                  /\ idleSeconds' = idleSeconds
         /\ uiLogId = NULL => (uiLogId' = NULL /\ store' = store)]_vars

\* ------------------------------------------------------------------------
\* The idle check and the session
\* ------------------------------------------------------------------------
(***************************************************************************)
(* The UI starts the idle check when it has a current log and stops it    *)
(* when it has none; the host record of the session is closed by          *)
(* stopTracking, which reconcileTimestamps also calls.  The idle check is *)
(* an interval of main.js of its own: IdleManager never touches it.       *)
(***************************************************************************)
NextMonitor ==
    \/ \E l \in LogIds, k \in TaskIds : HandleStartTimer(l, k) /\ UNCHANGED sideVars
    \/ \E ok \in BOOLEAN : HandleStopTimer(ok) /\ UNCHANGED sideVars
    \/ \E b \in BackendIdles : RestoreActiveTimer(b) /\ UNCHANGED sideVars
    \/ SampleArrives /\ UNCHANGED sideVars
    \/ \E d \in Steps : AdvanceTicking(d) /\ UNCHANGED nonHostVars
    \/ \E d \in Steps : AdvanceFree(d) /\ UNCHANGED nonHostVars
    \/ HeartbeatTick /\ UNCHANGED nonHostVars
    \/ \E s \in IdleStartSources, ok \in BOOLEAN : IdleStart(s, ok) /\ UNCHANGED nonHostVars
    \/ \E s \in IdleEndSources, ok \in BOOLEAN : IdleEnd(s, ok) /\ UNCHANGED nonHostVars
    \/ \E ok \in BOOLEAN : TimerReconcile(ok) /\ UNCHANGED nonHostVars

SpecMonitor == Init /\ [][NextMonitor]_vars

\* C17: the idle check, which sends a sample to the UI every second, runs
\* only while a session is running, in the UI and in the host record: not
\* before a start, not after a stop and not after reconcile has set
\* timerRunning to false.
C17_SamplesOnlyWhileRunning ==
    idleCheckInterval => (uiLogId # NULL /\ store.timerRunning)

\* ------------------------------------------------------------------------
\* Errors raised inside the host's handlers
\* ------------------------------------------------------------------------
\* who calls reconcileTimestamps while the process runs
ReconcileCallers == IdleEndSources \cup {"reconcile"}

\* the callers that wrap the call in try/catch: the 'timer:reconcile' handler
\* only; handleIdleEnd and initialize call it bare
CatchingCallers == {"reconcile"}

\* The first store.get of reconcileTimestamps raises (the file cannot be
\* read).  Nothing is written and no event is built; the error is caught by
\* the caller when it has a try/catch, and leaves the callback otherwise.
ReconcileThrows(caller) ==
    /\ alive
    /\ caller \in IdleEndSources => (caller = "resume" <=> frozen)
    /\ frozen' = IF caller \in IdleEndSources THEN FALSE ELSE frozen
    /\ uncaught' = (uncaught \/ caller \notin CatchingCallers)
    /\ UNCHANGED <<store, heartbeatInterval, hbTimers, tickDue, now, uptime,
                   skew, alive, lock, windowOk, processStartTime, restarts,
                   emitted, sent, last>>
    /\ UNCHANGED <<uiVars, fwVars, beVars, idleCheckInterval, refreshed, starting, seenIdle>>

\* ipcMain.on('renderer-ready'): idleManager.setRendererReady is not a
\* function of IdleManager, so the call raises a TypeError in a listener that
\* has no try/catch.
RendererReady ==
    /\ alive
    /\ uncaught' = TRUE
    /\ UNCHANGED <<hostVars, uiVars, fwVars, beVars, idleCheckInterval, refreshed, starting, seenIdle>>

NextErrors ==
    \/ \E d \in Steps : AdvanceTicking(d) /\ UNCHANGED nonHostVars
    \/ \E d \in Steps : AdvanceFree(d) /\ UNCHANGED nonHostVars
    \/ HeartbeatTick /\ UNCHANGED nonHostVars
    \/ \E l \in LogIds, k \in TaskIds : TimerStart(l, k) /\ UNCHANGED nonHostVars
    \/ \E ok \in BOOLEAN : TimerStop(ok) /\ UNCHANGED nonHostVars
    \/ \E s \in IdleStartSources, ok \in BOOLEAN : IdleStart(s, ok) /\ UNCHANGED nonHostVars
    \/ \E s \in IdleEndSources, ok \in BOOLEAN : IdleEnd(s, ok) /\ UNCHANGED nonHostVars
    \/ \E ok \in BOOLEAN : TimerReconcile(ok) /\ UNCHANGED nonHostVars
    \/ \E caller \in ReconcileCallers : ReconcileThrows(caller)
    \/ RendererReady

SpecErrors == Init /\ [][NextErrors]_vars

\* C16: no error leaves a handler of the host uncaught: a store read error
\* during reconcile ends the call quietly whoever made it, and no inbound
\* operation, renderer-ready included, raises.
C16_NoUncaughtError == ~uncaught

\* ------------------------------------------------------------------------
\* Reconcile after a refresh
\* ------------------------------------------------------------------------
\* time between two steps of the scenario: 30 s, then 70 s
RefreshSteps == {30000, 70000}

NoRefresh == [t |-> NULL, mono |-> NULL, live |-> FALSE, used |-> FALSE]

\* History of the step just taken.  A reconcile call on a running session
\* that builds no event is a refresh at the clocks of the call; the refresh
\* stays live while the record is not written again, and is marked used by
\* the next reconcile call.
RefreshTracked ==
    refreshed' =
        IF last'.op \in ReconcileOps
        THEN IF ~ReconcileSkips(last'.pre) /\ last'.built = 0
             THEN [t |-> now', mono |-> uptime', live |-> TRUE, used |-> FALSE]
             ELSE [refreshed EXCEPT !.live = FALSE, !.used = refreshed.live]
        ELSE IF store' = store THEN refreshed
        ELSE NoRefresh

\* what a host step leaves alone beside the history
nonRefreshVars == <<uiVars, fwVars, beVars, idleCheckInterval, uncaught, starting,
                   seenIdle>>

NextRefresh ==
    \/ \E d \in RefreshSteps : AdvanceTicking(d) /\ RefreshTracked /\ UNCHANGED nonRefreshVars
    \/ \E d \in RefreshSteps : AdvanceFree(d) /\ RefreshTracked /\ UNCHANGED nonRefreshVars
    \/ HeartbeatTick /\ RefreshTracked /\ UNCHANGED nonRefreshVars
    \/ \E l \in LogIds, k \in TaskIds :
          TimerStart(l, k) /\ RefreshTracked /\ UNCHANGED nonRefreshVars
    \/ \E ok \in BOOLEAN : TimerStop(ok) /\ RefreshTracked /\ UNCHANGED nonRefreshVars
    \/ \E s \in IdleStartSources, ok \in BOOLEAN :
          IdleStart(s, ok) /\ RefreshTracked /\ UNCHANGED nonRefreshVars
    \/ \E s \in IdleEndSources, ok \in BOOLEAN :
          IdleEnd(s, ok) /\ RefreshTracked /\ UNCHANGED nonRefreshVars
    \/ \E ok \in BOOLEAN : TimerReconcile(ok) /\ RefreshTracked /\ UNCHANGED nonRefreshVars
    \/ Crash /\ RefreshTracked /\ UNCHANGED nonRefreshVars
    \/ \E u0 \in StartUptimes, ok \in BOOLEAN :
          ProcessStart(u0, ok) /\ RefreshTracked /\ UNCHANGED nonRefreshVars

SpecRefresh == Init /\ [][NextRefresh]_vars

\* C19: a reconcile call that follows a refresh, with no write of the
\* heartbeat in between, measures its gap from the refresh: it builds an
\* event (one) exactly when more than 60000 ms of monotonic time have passed
\* since the refresh, closes the session only then, and reports idleSeconds
\* and startedAt from the refreshed point.
C19_GapFromRefresh ==
    [][(refreshed.live /\ last'.op \in ReconcileOps)
         => /\ (last'.built = 1) <=> (uptime' - refreshed.mono > IDLE_GAP_MS)
            /\ last'.built <= 1
            /\ ~store'.timerRunning => (uptime' - refreshed.mono > IDLE_GAP_MS)
            /\ last'.built = 1
                 => /\ last'.ret.idleSeconds = FloorSeconds(uptime' - refreshed.mono)
                    /\ last'.ret.startedAt = refreshed.t]_vars

\* a reconcile found no gap 30 s after the heartbeat, and the next one, 70 s
\* after that refresh, built an event of 70 idle seconds and closed the session
C19_Witness ==
    /\ refreshed.used
    /\ Reconciled
    /\ last.built = 1
    /\ last.ret.idleSeconds = 70
    /\ last.ret.startedAt = refreshed.t
    /\ now - refreshed.t = 70000
    /\ ~store.timerRunning

\* ------------------------------------------------------------------------
\* startTracking, one store.set at a time
\* ------------------------------------------------------------------------
(***************************************************************************)
(* startTracking writes the record with six ordinary store.set calls      *)
(* (two of them in updateHeartbeat), each of which rewrites the file, and  *)
(* then creates the interval.  The process can die between two of them.   *)
(***************************************************************************)
\* the store.set calls of startTracking, in the order of the code
StartTrackingSets(logId, taskId, t, mono, pst) ==
    << <<"lastActiveAt", t>>,
       <<"lastActiveAtMonotonic", mono>>,
       <<"timerRunning", TRUE>>,
       <<"currentLogId", logId>>,
       <<"taskId", taskId>>,
       <<"processStartTime", pst>> >>

\* store.set(key, value)
StoreSet(rec, kv) == [rec EXCEPT ![kv[1]] = kv[2]]

\* no startTracking call is in progress
NotInStart == ~starting.active

\* ipcMain 'timer:start' -> startTracking is entered
StartTrackingBegins(logId, taskId) ==
    /\ Running /\ NotInStart
    /\ hbTimers < MaxTimers
    /\ starting' = [active |-> TRUE,
                    sets |-> StartTrackingSets(logId, taskId, now, uptime,
                                               processStartTime)]
    /\ UNCHANGED <<hostVars, uiVars, fwVars, beVars, idleCheckInterval,
                   uncaught, refreshed, seenIdle>>

\* the next store.set of the call
StartTrackingSet ==
    /\ starting.active /\ starting.sets # <<>>
    /\ store' = StoreSet(store, Head(starting.sets))
    /\ starting' = [starting EXCEPT !.sets = Tail(starting.sets)]
    /\ last' = Ran("set")
    /\ UNCHANGED <<heartbeatInterval, hbTimers, tickDue, now, uptime, skew,
                   alive, frozen, lock, windowOk, processStartTime, restarts,
                   emitted, sent>>
    /\ UNCHANGED <<uiVars, fwVars, beVars, idleCheckInterval, uncaught, refreshed,
                   seenIdle>>

\* setInterval, and the call returns
StartTrackingReturns ==
    /\ starting.active /\ starting.sets = <<>>
    /\ starting' = NotStarting
    /\ heartbeatInterval' = TRUE
    /\ hbTimers' = hbTimers + 1
    /\ last' = Ran("start")
    /\ UNCHANGED <<store, tickDue, now, uptime, skew, alive, frozen, lock,
                   windowOk, processStartTime, restarts, emitted, sent>>
    /\ UNCHANGED <<uiVars, fwVars, beVars, idleCheckInterval, uncaught, refreshed,
                   seenIdle>>

\* the process is killed inside startTracking
ProcessDiesInStart ==
    /\ starting.active
    /\ Crash
    /\ starting' = NotStarting
    /\ UNCHANGED <<uiVars, fwVars, beVars, idleCheckInterval, uncaught, refreshed,
                   seenIdle>>

NextStart ==
    \/ \E l \in LogIds, k \in TaskIds : StartTrackingBegins(l, k)
    \/ StartTrackingSet
    \/ StartTrackingReturns
    \/ ProcessDiesInStart
    \/ \E d \in Steps : NotInStart /\ AdvanceTicking(d) /\ UNCHANGED nonHostVars
    \/ \E d \in Steps : NotInStart /\ AdvanceFree(d) /\ UNCHANGED nonHostVars
    \/ NotInStart /\ HeartbeatTick /\ UNCHANGED nonHostVars
    \/ \E ok \in BOOLEAN : NotInStart /\ TimerStop(ok) /\ UNCHANGED nonHostVars
    \/ NotInStart /\ Crash /\ UNCHANGED nonHostVars
    \/ \E u0 \in StartUptimes, ok \in BOOLEAN :
          ProcessStart(u0, ok) /\ UNCHANGED nonHostVars

SpecStart == Init /\ [][NextStart]_vars

\* the record startTracking establishes is whole: a running session has its
\* log, its task and its process start time
WholeSession(rec) ==
    rec.timerRunning
    => /\ rec.currentLogId # NULL
       /\ rec.taskId # NULL
       /\ rec.processStartTime # NULL

\* C22: startTracking leaves timerRunning, currentLogId, taskId,
\* processStartTime and both timestamps set, as one write (the record on disk
\* never holds a part of them); stopTracking leaves timerRunning false,
\* currentLogId null and taskId null.
C22_StartStopRecord ==
    /\ [](last.op = "start"
            => /\ store.timerRunning
               /\ store.currentLogId # NULL /\ store.taskId # NULL
               /\ store.processStartTime = processStartTime
               /\ store.lastActiveAt = now
               /\ store.lastActiveAtMonotonic = uptime)
    /\ [](~alive => WholeSession(store))
    /\ [][(\E ok \in BOOLEAN : TimerStop(ok))
            => /\ ~store'.timerRunning
               /\ store'.currentLogId = NULL
               /\ store'.taskId = NULL]_vars

\* ------------------------------------------------------------------------
\* The suppression window of hard idle events
\* ------------------------------------------------------------------------
\* a hard event was received less than 2 s ago: its setTimeout has still
\* time to run
HardEventRecent == \E t \in suppressTimers : t > 0

\* C23: a hard event of at least 60 s adds exactly its idleSeconds to the
\* accumulated total and arms the suppression flag; the flag stays armed
\* until 2 s have passed since the most recent hard event, also when that
\* event arrived inside the window of an earlier one.
C23_SuppressionWindow ==
    [][/\ (HandlesIdleEvent /\ Head(inbox).idleSeconds >= IDLE_THRESHOLD)
            => /\ accumulatedIdle' = accumulatedIdle + Head(inbox).idleSeconds
               /\ ignoreNextSoftIdleReset'
       /\ HardEventRecent' => ignoreNextSoftIdleReset']_vars

\* ------------------------------------------------------------------------
\* The idle seconds shown
\* ------------------------------------------------------------------------
\* the step is a run of the onIdleTimeUpdate listener on the current sample
HandlesSample ==
    /\ idleCheckInterval /\ uiLogId # NULL
    /\ lastSystemIdle' = osIdle
    /\ UNCHANGED <<hostVars, uiLogId, suppressTimers, ignoreNextSoftIdleReset,
                   fed, osIdle, inbox, gap, idleCheckInterval>>

\* the soft idle of the current sample: the sample once it has reached 60
CurrentSoftIdle ==
    IF lastSystemIdle >= IDLE_THRESHOLD THEN lastSystemIdle ELSE 0

\* C24 as claimed: after every sample and every idle event processed in a
\* session, the idle seconds shown equal the accumulated total plus the
\* current sample when that sample is at least 60, plus 0 otherwise.
C24_Claimed ==
    [][(HandlesSample \/ (HandlesIdleEvent /\ uiLogId # NULL))
         => idleSeconds' = accumulatedIdle' + CurrentSoftIdle']_vars

\* C24 amended: after every processed sample the idle seconds shown equal the
\* accumulated total plus the sample when it is at least 60; after every
\* processed idle event they equal the accumulated total alone, whatever the
\* last sample was.
C24_DisplayedIdle ==
    [][/\ HandlesSample
            => idleSeconds' = accumulatedIdle' + CurrentSoftIdle'
       /\ (HandlesIdleEvent /\ uiLogId # NULL)
            => idleSeconds' = accumulatedIdle']_vars

\* the hard event of a gap was processed while the last sample, 65, was still
\* the current one: the total shown is the accumulated total
C24_Witness ==
    /\ uiLogId # NULL
    /\ gap.open /\ inbox = <<>>
    /\ lastSystemIdle >= IDLE_THRESHOLD
    /\ accumulatedIdle = gap.base + gap.hard
    /\ idleSeconds = accumulatedIdle
    /\ idleSeconds # accumulatedIdle + CurrentSoftIdle

\* ------------------------------------------------------------------------
\* Idle-start boundaries
\* ------------------------------------------------------------------------
\* the sources handleIdleStart is called with
AllIdleStartSources == IdleStartSources \cup {"shutdown", "user-inactive"}

NextBoundary ==
    \/ \E d \in Steps : AdvanceTicking(d) /\ UNCHANGED nonHostVars
    \/ \E d \in Steps : AdvanceFree(d) /\ UNCHANGED nonHostVars
    \/ HeartbeatTick /\ UNCHANGED nonHostVars
    \/ \E l \in LogIds, k \in TaskIds : TimerStart(l, k) /\ UNCHANGED nonHostVars
    \/ \E ok \in BOOLEAN : TimerStop(ok) /\ UNCHANGED nonHostVars
    \/ \E s \in AllIdleStartSources \ {"shutdown"}, ok \in BOOLEAN :
          IdleStart(s, ok) /\ UNCHANGED nonHostVars
    \/ \E s \in IdleEndSources, ok \in BOOLEAN : IdleEnd(s, ok) /\ UNCHANGED nonHostVars
    \/ \E ok \in BOOLEAN : Shutdown(ok) /\ UNCHANGED nonHostVars
    \/ \E u0 \in StartUptimes, ok \in BOOLEAN :
          ProcessStart(u0, ok) /\ UNCHANGED nonHostVars

SpecBoundary == Init /\ [][NextBoundary]_vars

StopTrackingRefused ==
    /\ Quiet
    /\ TimerStop(FALSE)
    /\ fw' = [fw EXCEPT !.pc = "failed", !.caller = "stop", !.old = store,
                        !.new = StopTrackingStore(store, TRUE)]
    /\ UNCHANGED torn

\* fs.writeFileSync raises after the open: the error is caught, no key is
\* set, and the file stays as the failed write left it
ForcedWriteFails ==
    /\ alive /\ fw.pc = "truncated"
    /\ fw' = [fw EXCEPT !.pc = "failed"]
    /\ UNCHANGED <<hostVars, torn>>

NextWriteFail ==
    \/ \E l \in LogIds, k \in TaskIds : StartBetweenWrites(l, k) /\ UNCHANGED nonWriteVars
    \/ \E d \in Steps : TickBetweenWrites(d) /\ UNCHANGED nonWriteVars
    \/ StopTrackingBegins /\ UNCHANGED nonWriteVars
    \/ \E s \in IdleStartSources : HandleIdleStartBegins(s) /\ UNCHANGED nonWriteVars
    \/ ForcedWriteData /\ UNCHANGED nonWriteVars
    \/ ForcedWriteReturns /\ UNCHANGED nonWriteVars
    \/ StopTrackingRefused /\ UNCHANGED nonWriteVars
    \/ ForcedWriteFails /\ UNCHANGED nonWriteVars
    \/ ProcessDies /\ UNCHANGED nonWriteVars
    \/ \E u0 \in StartUptimes, o \in BootOutcomes : ProcessRestarts(u0, o) /\ UNCHANGED nonWriteVars

SpecWriteFail == Init /\ [][NextWriteFail]_vars

\* C26: a forced write that fails raises nothing to its caller and leaves
\* the record as it was before the call, in the file and in memory; inside
\* stopTracking it leaves timerRunning as it was while the heartbeat interval
\* is already cancelled.
C26_FailedWriteKeepsRecord ==
    fw.pc = "failed"
    => /\ ~uncaught
       /\ ~torn
       /\ store = fw.old
       /\ fw.caller = "stop" => ~heartbeatInterval

\* the part that holds: the caller sees no error and no key is set
C26_NoKeySet ==
    fw.pc = "failed"
    => /\ ~uncaught
       /\ store = fw.old
       /\ fw.caller = "stop" => ~heartbeatInterval

\* ------------------------------------------------------------------------
\* Reconcile without a window
\* ------------------------------------------------------------------------
NextWindow ==
    \/ \E d \in Steps : AdvanceTicking(d) /\ UNCHANGED nonHostVars
    \/ \E d \in Steps : AdvanceFree(d) /\ UNCHANGED nonHostVars
    \/ HeartbeatTick /\ UNCHANGED nonHostVars
    \/ \E l \in LogIds, k \in TaskIds : TimerStart(l, k) /\ UNCHANGED nonHostVars
    \/ \E ok \in BOOLEAN : TimerStop(ok) /\ UNCHANGED nonHostVars
    \/ \E s \in IdleStartSources, ok \in BOOLEAN : IdleStart(s, ok) /\ UNCHANGED nonHostVars
    \/ \E s \in IdleEndSources, ok \in BOOLEAN : IdleEnd(s, ok) /\ UNCHANGED nonHostVars
    \/ \E ok \in BOOLEAN : TimerReconcile(ok) /\ UNCHANGED nonHostVars
    \/ WindowClosed /\ UNCHANGED nonHostVars

SpecWindow == Init /\ [][NextWindow]_vars

\* the step is a reconcile call that builds an event while no window exists
ClosesWithoutWindow ==
    /\ last'.op \in ReconcileOps
    /\ last'.built = 1
    /\ ~windowOk'

\* an event reaches the UI only in the step that builds it
SentOnlyWhenBuilt ==
    sent' # sent
    => /\ last'.op \in ReconcileOps /\ last'.built = 1
       /\ windowOk'
       /\ sent' = sent + 1

SlowStartUptimes == {HEARTBEAT_MS, IDLE_GAP_MS + 2 * HEARTBEAT_MS}

\* The next process reaches initialize u0 ms after its launch; at least that
\* much wall time has passed since the last write of the earlier process.
ProcessStartAfter(u0, ok) ==
    /\ now - store.lastActiveAt >= u0
    /\ ProcessStart(u0, ok)

\* every step of the host except a change of the wall clock
NextSteady ==
    \/ \E d \in Steps : AdvanceTicking(d) /\ UNCHANGED nonHostVars
    \/ \E d \in Steps : AdvanceFree(d) /\ UNCHANGED nonHostVars
    \/ HeartbeatTick /\ UNCHANGED nonHostVars
    \/ \E l \in LogIds, k \in TaskIds : TimerStart(l, k) /\ UNCHANGED nonHostVars
    \/ \E ok \in BOOLEAN : TimerStop(ok) /\ UNCHANGED nonHostVars
    \/ \E s \in IdleStartSources, ok \in BOOLEAN : IdleStart(s, ok) /\ UNCHANGED nonHostVars
    \/ \E s \in IdleEndSources, ok \in BOOLEAN : IdleEnd(s, ok) /\ UNCHANGED nonHostVars
    \/ \E ok \in BOOLEAN : TimerReconcile(ok) /\ UNCHANGED nonHostVars
    \/ \E ok \in BOOLEAN : Shutdown(ok) /\ UNCHANGED nonHostVars
    \/ Crash /\ UNCHANGED nonHostVars
    \/ \E u0 \in SlowStartUptimes, ok \in BOOLEAN :
          ProcessStartAfter(u0, ok) /\ UNCHANGED nonHostVars

SpecSteady == Init /\ [][NextSteady]_vars

\* C28: while the wall clock is never adjusted, no event a reconcile call
\* builds has clockTampering true, restarts included.
C28_NoTamperingWithoutAdjust ==
    (skew = 0 /\ Reconciled /\ last.built = 1) => ~last.ret.clockTampering

\* the same within the first process
C28_FirstProcess ==
    (skew = 0 /\ restarts = 0 /\ Reconciled /\ last.built = 1)
    => ~last.ret.clockTampering

\* ------------------------------------------------------------------------
\* Stopping while offline
\* ------------------------------------------------------------------------
\* handleStopTimer, offline path: the stop is queued by the offline manager
\* and the UI state is cleared; the host is not told.
HandleStopTimerOffline ==
    /\ uiLogId # NULL
    /\ uiLogId' = NULL
    /\ idleSeconds' = 0
    /\ storage' = ClearIdleState(storage, uiLogId)
    /\ StopIdleMonitoring
    /\ UNCHANGED <<accumulatedIdle, lastSystemIdle, ignoreNextSoftIdleReset,
                   suppressTimers, fed, osIdle, inbox, gap>>
    /\ UNCHANGED hostVars

NextOffline ==
    \/ \E l \in LogIds, k \in TaskIds : HandleStartTimer(l, k) /\ UNCHANGED sideVars
    \/ \E ok \in BOOLEAN : HandleStopTimer(ok) /\ UNCHANGED sideVars
    \/ HandleStopTimerOffline /\ UNCHANGED sideVars
    \/ \E n \in AwaySteps : UserAway(n) /\ UNCHANGED sideVars
    \/ UserReturns(FALSE) /\ UNCHANGED sideVars
    \/ SampleArrives /\ UNCHANGED sideVars
    \/ \E d \in Steps : AdvanceTicking(d) /\ UNCHANGED nonHostVars
    \/ HeartbeatTick /\ UNCHANGED nonHostVars

SpecOffline == Init /\ [][NextOffline]_vars

\* C29: whenever the UI has no current session, having completed its stop
\* on the online or on the offline path, the host record has timerRunning
\* false and no heartbeat interval is active.
C29_HostStoppedWithUi ==
    uiLogId = NULL
    => /\ ~store.timerRunning
       /\ ~heartbeatInterval
       /\ hbTimers = 0

\* ------------------------------------------------------------------------
\* Soft idle across sessions
\* ------------------------------------------------------------------------
\* what a step of the UI leaves alone beside the history of the session
nonSessionVars == <<fwVars, beVars, uncaught, refreshed, starting>>

\* a session starts: it has processed no sample yet
SessionStarts(logId, taskId) ==
    /\ HandleStartTimer(logId, taskId)
    /\ seenIdle' = FALSE

\* a sample is processed in the current session
SessionSample ==
    /\ SampleArrives
    /\ seenIdle' = (seenIdle \/ osIdle >= IDLE_THRESHOLD)

NextSessions ==
    \/ \E l \in LogIds, k \in TaskIds : SessionStarts(l, k) /\ UNCHANGED nonSessionVars
    \/ SessionSample /\ UNCHANGED nonSessionVars
    \/ \E ok \in BOOLEAN : HandleStopTimer(ok) /\ UNCHANGED sideVars
    \/ HandleStopTimerOffline /\ UNCHANGED sideVars
    \/ \E n \in AwaySteps : UserAway(n) /\ UNCHANGED sideVars
    \/ UserReturns(FALSE) /\ UNCHANGED sideVars

SpecSessions == Init /\ [][NextSessions]_vars

\* C30: soft idle of an earlier session is never added to the current one:
\* the accumulated total of a session stays 0 until the session itself has
\* processed a sample of at least 60 s (and then a lower one).
C30_NoCarryOver ==
    (uiLogId # NULL /\ ~seenIdle) => accumulatedIdle = 0

====
